---- MODULE Spec2Model ----
(***************************************************************************)
(* Model of trading/theta_analyzer.py: class ThetaAnalyzer.                *)
(*                                                                         *)
(* Python numbers are modelled as exact rationals <<n, d>> in lowest terms *)
(* with d > 0; None is the empty tuple.  strike_price, short_quantity and  *)
(* total_principal stay integers, as every value the model feeds them is   *)
(* one.  An option's option_symbol is its index in the position list.      *)
(***************************************************************************)
EXTENDS Integers, Sequences, FiniteSets

VARIABLES
    options,                       \* self.options: the position list
    option_chains,                 \* what the option-chain data holds for each position
    ticker_to_stock_map,           \* the tickers that have an entry in the map
    total_theta,                   \* self.total_theta
    total_principal,               \* self.total_principal
    total_theta_decay_percentage,  \* self.total_theta_decay_percentage
    pc,                            \* "new" before __init__ ran, "constructed" after
    requested,                     \* positions get_option_chains was called for
    analyze_calls,                 \* how many times analyze() was called
    outcome,                       \* how the last analyze() call ended
    returned,                      \* the value the last analyze() call returned
    top_report,                    \* lines printed by the loop of lines 49-50
    bottom_report                  \* lines printed by the loop of lines 52-53

vars == <<options, option_chains, ticker_to_stock_map, total_theta, total_principal,
          total_theta_decay_percentage, pc, requested, analyze_calls, outcome,
          returned, top_report, bottom_report>>

----------------------------------------------------------------------------
(* Bounds of the model *)

MaxPositions == 5

MaxAnalyzeCalls == 2

(* Program constants *)

ContractMultiplier == 100

PercentFactor == 100

RankCount == 5

----------------------------------------------------------------------------
(* Exact rational arithmetic standing for Python's numbers *)

None == <<>>

Abs(n) == IF n < 0 THEN -n ELSE n

RECURSIVE GCD(_, _)
GCD(a, b) == IF b = 0 THEN a ELSE GCD(b, a % b)

Rat(n, d) ==
    LET g == GCD(Abs(n), Abs(d))
        s == IF d < 0 THEN -1 ELSE 1
    IN  <<(s * n) \div g, (s * d) \div g>>

FromInt(n) == <<n, 1>>

RNeg(x) == <<-x[1], x[2]>>

RAdd(x, y) == Rat(x[1] * y[2] + y[1] * x[2], x[2] * y[2])

RMul(x, y) == Rat(x[1] * y[1], x[2] * y[2])

RDiv(x, y) == Rat(x[1] * y[2], x[2] * y[1])

RLess(x, y) == x[1] * y[2] < y[1] * x[2]

Sign(x) == IF x[1] > 0 THEN 1 ELSE IF x[1] < 0 THEN -1 ELSE 0

Min(a, b) == IF a < b THEN a ELSE b

----------------------------------------------------------------------------
(* The inputs: positions and the option-chain data behind them *)

\* Each kind is a position an account can hold together with the greeks the
\* option-chain data holds for its symbol.
PositionKinds ==
    { [ticker |-> "AAPL", strike_price |-> 100, short_quantity |-> -1,
       chain_delta |-> Rat(-30, 100), chain_theta |-> Rat(-5, 100)],
      [ticker |-> "AAPL", strike_price |-> 200, short_quantity |-> -1,
       chain_delta |-> Rat(-25, 100), chain_theta |-> Rat(-10, 100)],
      [ticker |-> "AAPL", strike_price |-> 50, short_quantity |-> -1,
       chain_delta |-> Rat(-20, 100), chain_theta |-> Rat(-2, 100)],
      [ticker |-> "AAPL", strike_price |-> 200, short_quantity |-> 1,
       chain_delta |-> Rat(40, 100), chain_theta |-> Rat(-5, 100)],
      [ticker |-> "AAPL", strike_price |-> 100, short_quantity |-> 1,
       chain_delta |-> None, chain_theta |-> None],
      [ticker |-> "AAPL", strike_price |-> 100, short_quantity |-> 1,
       chain_delta |-> Rat(1, 100), chain_theta |-> Rat(0, 100)],
      [ticker |-> "TSLA", strike_price |-> 100, short_quantity |-> 1,
       chain_delta |-> Rat(50, 100), chain_theta |-> Rat(-5, 100)] }

\* A position as its loader hands it over: the greeks and the derived
\* percentage are not set yet.
NewOption(kind) ==
    [ticker |-> kind.ticker, strike_price |-> kind.strike_price,
     short_quantity |-> kind.short_quantity,
     delta |-> None, theta |-> None, theta_decay_percentage |-> None]

Quote(kind) == [delta |-> kind.chain_delta, theta |-> kind.chain_theta]

PositionLists == UNION { [1..n -> PositionKinds] : n \in 0..MaxPositions }

----------------------------------------------------------------------------
(* __init__ *)

\* Mutant of HasStock: the lookup never misses.
HasStockAlways(map, option) == TRUE

\* stock = self.ticker_to_stock_map.get(option.ticker); stock is not None
HasStock(map, option) == option.ticker \in map

\* if option.theta:
Truthy(theta) == theta # None /\ theta[1] # 0

\* - option.theta * 100 / option.strike_price
ThetaDecayPercentage(theta, strike_price) ==
    RDiv(RMul(RNeg(theta), FromInt(PercentFactor)), FromInt(strike_price))

\* One pass of the constructor's loop body over a position.
Annotate(map, option, quote) ==
    IF ~HasStock(map, option)
    THEN option
    ELSE LET withGreeks == [option EXCEPT !.delta = quote.delta, !.theta = quote.theta]
         IN  IF Truthy(withGreeks.theta)
             THEN [withGreeks EXCEPT !.theta_decay_percentage =
                      ThetaDecayPercentage(withGreeks.theta, withGreeks.strike_price)]
             ELSE withGreeks

Construct ==
    /\ pc = "new"
    /\ pc' = "constructed"
    /\ total_theta' = FromInt(0)
    /\ total_principal' = 0
    /\ total_theta_decay_percentage' = FromInt(0)
    /\ options' = [i \in 1..Len(options) |->
                      Annotate(ticker_to_stock_map, options[i], option_chains[i])]
    /\ requested' = {i \in 1..Len(options) : HasStock(ticker_to_stock_map, options[i])}
    /\ UNCHANGED <<option_chains, ticker_to_stock_map, analyze_calls, outcome,
                   returned, top_report, bottom_report>>

----------------------------------------------------------------------------
(* analyze *)

\* Mutant of HasNoTheta: the test is for a falsy theta, as on line 28.
HasNoThetaFalsy(option) == option.theta = None \/ option.theta[1] = 0

\* if option.theta is None: ... continue
HasNoTheta(option) == option.theta = None

\* option.theta * option.short_quantity * 100
ThetaContribution(option) ==
    RMul(RMul(option.theta, FromInt(option.short_quantity)), FromInt(ContractMultiplier))

\* Mutant of PrincipalContribution: the quantity enters by its size only.
PrincipalContributionUnsigned(option) ==
    option.strike_price * Abs(option.short_quantity) * ContractMultiplier

\* option.strike_price * option.short_quantity * 100
PrincipalContribution(option) ==
    option.strike_price * option.short_quantity * ContractMultiplier

\* self.total_theta after the accumulation loop ran over the first n positions.
RECURSIVE AccumulateTheta(_, _, _)
AccumulateTheta(opts, n, start) ==
    IF n = 0 THEN start
    ELSE IF HasNoTheta(opts[n]) THEN AccumulateTheta(opts, n - 1, start)
    ELSE RAdd(AccumulateTheta(opts, n - 1, start), ThetaContribution(opts[n]))

\* self.total_principal after the accumulation loop ran over the first n positions.
RECURSIVE AccumulatePrincipal(_, _, _)
AccumulatePrincipal(opts, n, start) ==
    IF n = 0 THEN start
    ELSE IF HasNoTheta(opts[n]) THEN AccumulatePrincipal(opts, n - 1, start)
    ELSE AccumulatePrincipal(opts, n - 1, start) + PrincipalContribution(opts[n])

\* Mutant of TotalThetaDecayPercentage: the negation is missing.
TotalThetaDecayPercentageNotNegated(theta, principal) ==
    RDiv(RMul(theta, FromInt(PercentFactor)), FromInt(principal))

\* - self.total_theta * 100 / self.total_principal
TotalThetaDecayPercentage(theta, principal) ==
    RDiv(RMul(RNeg(theta), FromInt(PercentFactor)), FromInt(principal))

\* ... for option in self.options if option.theta is not None
IsRanked(option) == option.theta # None

\* [(option.option_symbol, option.theta_decay_percentage) for ... if ...]
RECURSIVE DecayList(_, _)
DecayList(opts, n) ==
    IF n = 0 THEN <<>>
    ELSE IF IsRanked(opts[n])
         THEN Append(DecayList(opts, n - 1), <<n, opts[n].theta_decay_percentage>>)
         ELSE DecayList(opts, n - 1)

\* Where a stable descending sort puts e among the already sorted entries:
\* after every entry whose key is not smaller.
InsertDescending(sorted, e) ==
    LET k == Cardinality({j \in 1..Len(sorted) : ~RLess(sorted[j][2], e[2])})
    IN  SubSeq(sorted, 1, k) \o <<e>> \o SubSeq(sorted, k + 1, Len(sorted))

\* list.sort(key=lambda x: x[1], reverse=True)
RECURSIVE SortDescending(_, _)
SortDescending(list, n) ==
    IF n = 0 THEN <<>>
    ELSE InsertDescending(SortDescending(list, n - 1), list[n])

\* Comparing None with anything raises TypeError; a list of fewer than two
\* entries is sorted without a comparison.
SortRaises(list) ==
    Len(list) >= 2 /\ \E j \in 1..Len(list) : list[j][2] = None

\* for i in range(5): print(theta_decay_percentage_list[i])
TopPrinted(sorted) == SubSeq(sorted, 1, Min(RankCount, Len(sorted)))

\* for i in range(1, 6): print(theta_decay_percentage_list[-i])
BottomPrinted(sorted) == [i \in 1..RankCount |-> sorted[Len(sorted) + 1 - i]]

\* Lines 46-58: build the list, sort it, print both rankings, return.
Rank(list) ==
    IF SortRaises(list)
    THEN /\ outcome' = "TypeError"
         /\ returned' = None
         /\ top_report' = <<>>
         /\ bottom_report' = <<>>
    ELSE /\ top_report' = TopPrinted(SortDescending(list, Len(list)))
         /\ IF Len(list) < RankCount
            THEN /\ outcome' = "IndexError"
                 /\ returned' = None
                 /\ bottom_report' = <<>>
            ELSE /\ outcome' = "returned"
                 /\ returned' = total_theta_decay_percentage'
                 /\ bottom_report' = BottomPrinted(SortDescending(list, Len(list)))

Analyze ==
    /\ pc = "constructed"
    /\ analyze_calls < MaxAnalyzeCalls
    /\ analyze_calls' = analyze_calls + 1
    /\ total_theta' = AccumulateTheta(options, Len(options), total_theta)
    /\ total_principal' = AccumulatePrincipal(options, Len(options), total_principal)
    /\ IF total_principal' = 0
       THEN /\ outcome' = "ZeroDivisionError"
            /\ UNCHANGED total_theta_decay_percentage
            /\ returned' = None
            /\ top_report' = <<>>
            /\ bottom_report' = <<>>
       ELSE /\ total_theta_decay_percentage' =
                   TotalThetaDecayPercentage(total_theta', total_principal')
            /\ Rank(DecayList(options, Len(options)))
    /\ UNCHANGED <<options, option_chains, ticker_to_stock_map, pc, requested>>

----------------------------------------------------------------------------
(* The specification *)

Init ==
    /\ \E kinds \in PositionLists :
          /\ options = [i \in 1..Len(kinds) |-> NewOption(kinds[i])]
          /\ option_chains = [i \in 1..Len(kinds) |-> Quote(kinds[i])]
    /\ ticker_to_stock_map = {"AAPL"}
    /\ total_theta = FromInt(0)
    /\ total_principal = 0
    /\ total_theta_decay_percentage = FromInt(0)
    /\ pc = "new"
    /\ requested = {}
    /\ analyze_calls = 0
    /\ outcome = "none"
    /\ returned = None
    /\ top_report = <<>>
    /\ bottom_report = <<>>

Next == Construct \/ Analyze

Spec == Init /\ [][Next]_vars

----------------------------------------------------------------------------
(* Vocabulary of the properties *)

Range(s) == {s[i] : i \in 1..Len(s)}

Positions == 1..Len(options)

\* The positions analyze() treats as eligible.
Eligible == {i \in Positions : options[i].theta # None}

\* The positions whose ticker has no entry in the map.
Unmapped == {i \in Positions : options[i].ticker \notin ticker_to_stock_map}

RECURSIVE SumThetaOver(_, _)
SumThetaOver(opts, S) ==
    IF S = {} THEN <<0, 1>>
    ELSE LET i == CHOOSE j \in S : TRUE
         IN  RAdd(Rat(opts[i].theta[1] * opts[i].short_quantity * 100, opts[i].theta[2]),
                  SumThetaOver(opts, S \ {i}))

RECURSIVE SumPrincipalOver(_, _)
SumPrincipalOver(opts, S) ==
    IF S = {} THEN 0
    ELSE LET i == CHOOSE j \in S : TRUE
         IN  opts[i].strike_price * opts[i].short_quantity * 100
             + SumPrincipalOver(opts, S \ {i})

AnalyzeStep == analyze_calls' = analyze_calls + 1

ConstructStep == pc = "new" /\ pc' = "constructed"

\* entry e of a report comes before entry f in the descending order that
\* keeps positions of equal percentage in their original order
Before(e, f) == RLess(f[2], e[2]) \/ (e[2] = f[2] /\ e[1] < f[1])

----------------------------------------------------------------------------
(* C1 *)

\* C1: when total_principal is 0 after the accumulation, analyze() does not
\* end in an unhandled division-by-zero failure.
C1_ZeroPrincipalGuarded ==
    (analyze_calls >= 1 /\ total_principal = 0) => outcome # "ZeroDivisionError"

----------------------------------------------------------------------------
(* C2 *)

\* C2: whenever analyze() gets to its ranking step, the step ends without an
\* indexing error and each of the two reported lists has min(5, n) entries,
\* n being the number of eligible positions.
C2_RankingDegradesToAvailable ==
    (analyze_calls >= 1 /\ outcome \notin {"ZeroDivisionError", "TypeError"})
        => /\ outcome = "returned"
           /\ Len(top_report) = Min(5, Cardinality(Eligible))
           /\ Len(bottom_report) = Min(5, Cardinality(Eligible))

----------------------------------------------------------------------------
(* C3 *)

\* C3: a second analyze() on unchanged positions, after a first one that
\* completed, leaves the three totals as they were and reports the same two
\* lists in the same order.
C3_AnalyzeIdempotent ==
    [][(AnalyzeStep /\ outcome = "returned" /\ outcome' = "returned")
          => /\ total_theta' = total_theta
             /\ total_principal' = total_principal
             /\ total_theta_decay_percentage' = total_theta_decay_percentage
             /\ top_report' = top_report
             /\ bottom_report' = bottom_report]_vars

----------------------------------------------------------------------------
(* C4 *)

\* C4: an analyze() call adds to total_theta and total_principal the terms of
\* the positions with non-null theta and nothing else, reports no position
\* with null theta in either list, and leaves the position list as it was.
C4_NullThetaExcluded ==
    [][AnalyzeStep
          => /\ total_theta' = RAdd(total_theta, SumThetaOver(options, Eligible))
             /\ total_principal' = total_principal + SumPrincipalOver(options, Eligible)
             /\ \A e \in Range(top_report') \cup Range(bottom_report') :
                    e[1] \in Eligible
             /\ options' = options]_vars

\* analyze() has run and reported on a list holding a position whose theta
\* the option-chain data left null next to eligible ones.
C4_Witness ==
    /\ analyze_calls >= 1
    /\ top_report # <<>>
    /\ \E i \in Positions \ (Eligible \cup Unmapped) : TRUE

----------------------------------------------------------------------------
(* C5 *)

\* C5: after construction every position with a mapped ticker and a non-null
\* theta in the option-chain data, theta = 0 included, has
\* theta_decay_percentage = -theta * 100 / strike_price.
C5_DecayPercentageSet ==
    pc = "constructed"
        => \A i \in Positions \ Unmapped :
              option_chains[i].theta # None
                  => options[i].theta_decay_percentage =
                        Rat(-option_chains[i].theta[1] * 100,
                            option_chains[i].theta[2] * options[i].strike_price)

----------------------------------------------------------------------------
(* C6 *)

\* C6: construction requests no option-chain data for a position whose ticker
\* is not in the map and leaves its delta, theta and theta_decay_percentage
\* as they were, while every other position gets its greeks; every later
\* analyze() leaves such a position out of both totals and both lists.
C6_UnmappedSkipped ==
    [][/\ ConstructStep
            => /\ \A i \in Unmapped : i \notin requested' /\ options'[i] = options[i]
               /\ \A i \in Positions \ Unmapped :
                      /\ i \in requested'
                      /\ options'[i].delta = option_chains[i].delta
                      /\ options'[i].theta = option_chains[i].theta
               /\ Len(options') = Len(options)
       /\ AnalyzeStep
            => /\ total_theta' =
                     RAdd(total_theta, SumThetaOver(options, Eligible \ Unmapped))
               /\ total_principal' =
                     total_principal + SumPrincipalOver(options, Eligible \ Unmapped)
               /\ \A e \in Range(top_report') \cup Range(bottom_report') :
                      e[1] \notin Unmapped]_vars

\* analyze() has run and reported on a list holding a position whose ticker
\* is not in the map, for which the option-chain data does hold greeks.
C6_Witness ==
    /\ analyze_calls >= 1
    /\ top_report # <<>>
    /\ \E i \in Unmapped : option_chains[i].theta # None

----------------------------------------------------------------------------
(* C7 *)

\* C7: after the first analyze() of a fresh aggregator with non-zero
\* principal, total_theta and total_principal are the sums over the positions
\* with non-null theta, total_theta_decay_percentage is
\* -total_theta * 100 / total_principal, and the call returned that value.
C7_FirstAnalyzeTotals ==
    (analyze_calls = 1 /\ total_principal # 0)
        => /\ total_theta = SumThetaOver(options, Eligible)
           /\ total_principal = SumPrincipalOver(options, Eligible)
           /\ total_theta_decay_percentage =
                 Rat(-total_theta[1] * 100, total_theta[2] * total_principal)
           /\ outcome = "returned"
           /\ returned = total_theta_decay_percentage

----------------------------------------------------------------------------
(* C8 *)

EligibleOption(option) == option.theta # None

Profile(opts) ==
    [i \in 1..Len(opts) |-> <<opts[i].strike_price, opts[i].short_quantity, opts[i].theta>>]

\* The eligible positions are those of the scenario: strikes [100, 200, 50],
\* short_quantity -1 each, thetas [-0.05, -0.10, -0.02].
Scenario ==
    Profile(SelectSeq(options, EligibleOption)) =
        << <<100, -1, Rat(-5, 100)>>, <<200, -1, Rat(-10, 100)>>, <<50, -1, Rat(-2, 100)>> >>

\* C8 as written: in the scenario analyze() computes total_theta = 17.0,
\* total_principal = 35000 and total_theta_decay_percentage = -17.0*100/35000.
C8_ScenarioAsWritten ==
    (analyze_calls = 1 /\ Scenario)
        => /\ total_theta = FromInt(17)
           /\ total_principal = 35000
           /\ total_theta_decay_percentage = Rat(-17 * 100, 35000)

\* C8 amended: in the scenario analyze() computes total_theta = 17.0,
\* total_principal = -35000 and total_theta_decay_percentage
\* = -17.0*100/(-35000), about +0.0486.
C8_ScenarioTotals ==
    (analyze_calls = 1 /\ Scenario)
        => /\ total_theta = FromInt(17)
           /\ total_principal = -35000
           /\ total_theta_decay_percentage = Rat(-17 * 100, -35000)

\* The first analyze() has run on exactly the three positions of the scenario.
C8_Witness == analyze_calls = 1 /\ Scenario /\ Len(options) = 3

----------------------------------------------------------------------------
(* C9 *)

\* C9: whenever analyze() completes with total_principal > 0, the sign of
\* total_theta_decay_percentage is the opposite of the sign of total_theta.
C9_SignOpposite ==
    (outcome = "returned" /\ total_principal > 0)
        => Sign(total_theta_decay_percentage) = -Sign(total_theta)

\* analyze() completed with a positive principal and a non-zero total theta.
C9_Witness ==
    outcome = "returned" /\ total_principal > 0 /\ Sign(total_theta) # 0

----------------------------------------------------------------------------
(* C10 *)

\* C10: with at least 5 eligible positions (and a principal that is not zero)
\* analyze() reports first the 5 eligible positions of greatest
\* theta_decay_percentage, in non-increasing order and with equal percentages
\* in their original order, then the 5 of smallest percentage from the lowest
\* upward.
C10_RankingOfFive ==
    (analyze_calls >= 1 /\ Cardinality(Eligible) >= 5 /\ outcome # "ZeroDivisionError")
        => /\ outcome = "returned"
           /\ Len(top_report) = 5
           /\ Len(bottom_report) = 5
           /\ \A j \in 1..5 :
                 /\ top_report[j][1] \in Eligible
                 /\ top_report[j][2] = options[top_report[j][1]].theta_decay_percentage
                 /\ bottom_report[j][1] \in Eligible
                 /\ bottom_report[j][2] = options[bottom_report[j][1]].theta_decay_percentage
           /\ \A j, k \in 1..5 :
                 j < k => /\ Before(top_report[j], top_report[k])
                          /\ ~RLess(bottom_report[k][2], bottom_report[j][2])
                          /\ bottom_report[j][1] # bottom_report[k][1]
           /\ \A i \in Eligible : \A j \in 1..5 :
                 LET e == <<i, options[i].theta_decay_percentage>>
                 IN  /\ e \notin Range(top_report) => Before(top_report[j], e)
                     /\ e \notin Range(bottom_report) => ~RLess(e[2], bottom_report[j][2])

====
